---- MODULE Spec2Model ----
(***************************************************************************)
(* Model of PianoWithShadowHandsAndG1 (piano_with_shadow_hands_and_g1.py): *)
(* the G1 arm retargeting controller (_update_g1_arms, before_step,        *)
(* initialize_episode, add_g1), the goal / fingering state tracker         *)
(* (_update_goal_state, _update_fingering_state) and the reward terms      *)
(* (_set_rewards, get_reward and the _compute_*_reward methods).           *)
(*                                                                         *)
(* Reals are fixed-point integers: a value x stands for x / FP (rad,       *)
(* rad/s or rad/s^2).  The inputs are chosen so that every division the    *)
(* code performs is exact in this representation.                          *)
(***************************************************************************)
EXTENDS Integers, Sequences, FiniteSets, TLC

\* ------------------------------------------------------------ numbers

\* RateLimiter(frequency=10.0): rate.dt = 1 / frequency.
frequency == 10

\* Fixed-point resolution: one unit is 1/FP; a multiple of frequency^2 so
\* that v * dt and (v * dt) / dt * 0.8 stay integral for v a multiple of
\* frequency.
FP == frequency * frequency

vel_scale == 2
vel_limit == 2
acc_limit == 20
\* The 0.8 corrective gain, as a fraction.
correction_gain_num == 8
correction_gain_den == 10
ik_update_rate == 5

\* Bounds of the model.
MaxSteps == 11
MaxLen == 2
NKeys == 2
Lookahead == 1

Clip(x, lo, hi) == IF x < lo THEN lo ELSE IF x > hi THEN hi ELSE x

Min(a, b) == IF a < b THEN a ELSE b

\* Optional values: None is the empty sequence, Some(x) a one-element one.
None == <<>>
Some(x) == <<x>>
IsNone(o) == Len(o) = 0
Get(o) == o[1]

\* ------------------------------------------------------------ the arms

left_arm_joints == {"left_shoulder_pitch_joint", "left_elbow_joint"}
right_arm_joints == {"right_shoulder_pitch_joint"}
all_joints == left_arm_joints \cup right_arm_joints

Sides == {"right", "left"}

JointsOf(side) == IF side = "left" THEN left_arm_joints ELSE right_arm_joints

\* -------------------------------------------------- the deployed G1 model
\* What _find_g1_model / G1Entity / arena.attach meet on this machine: whether
\* a model file is found, whether it attaches, which arm joints and which
\* wrist bodies the file has, and whether the attached model carries the
\* name prefix "g1_29dof_rev_1_0/" that the lookups assume.
AssetFull ==
    [found |-> TRUE, attaches |-> TRUE, joints |-> all_joints,
     bodies |-> Sides, prefix_ok |-> TRUE]

AssetMissing == [AssetFull EXCEPT !.found = FALSE]

AssetBroken == [AssetFull EXCEPT !.attaches = FALSE]

AssetNoElbowJoint ==
    [AssetFull EXCEPT !.joints = all_joints \ {"left_elbow_joint"}]

AssetNoWristBody == [AssetFull EXCEPT !.bodies = {"right"}]

AssetOtherPrefix == [AssetFull EXCEPT !.prefix_ok = FALSE]

Assets ==
    {AssetFull, AssetMissing, AssetBroken, AssetNoElbowJoint,
     AssetNoWristBody, AssetOtherPrefix}

\* Raw solver outputs (mink.solve_ik), per degree of freedom.
RawVals == {-150, 50, 150}

\* Joint positions the physics integrator may leave an arm joint at.
PosVals == {0, 30}

VARIABLES
    pc,               \* where the environment harness stands
    asset,            \* the G1 model this deployment provides
    lookup_raises,    \* name2id raises on an unknown name (else returns -1)
    g1,               \* self._g1: "unset", "None" or "G1Entity"
    ik_counter,       \* self._ik_counter
    last_velocities,  \* self._last_velocities: None or Some(joint -> qvel)
    prev_vel,         \* self._prev_vel: None while the attribute is absent
    qpos,             \* physics joint positions of the arm joints
    qvel,             \* physics joint velocities of the arm joints
    step_no,          \* before_step calls since construction
    log,              \* what the last handler did (history)
    notes,            \* self._notes: per timestep, the list of notes
    sustains,         \* self._sustains: per timestep, the pedal flag
    wrong_press_termination,  \* self._wrong_press_termination
    misfires,         \* whether the hands ever press a key that must be off
    t_idx,            \* self._t_idx
    should_terminate, \* self._should_terminate
    failure_termination,      \* self._failure_termination
    discount,         \* self._discount
    goal_state,       \* self._goal_state: None until first built
    fingering_state,  \* self._fingering_state: None until first built
    rh_keys,          \* self._rh_keys
    lh_keys,          \* self._lh_keys
    disable_fingering_reward, \* self._disable_fingering_reward
    disable_forearm_reward,   \* self._disable_forearm_reward
    reward_fn,        \* self._reward_fn: the names of the registered terms
    goal_current,     \* self._goal_current: None until the first after_step
    rh_keys_current,  \* self._rh_keys_current
    lh_keys_current   \* self._lh_keys_current

ik_vars ==
    <<asset, lookup_raises, g1, ik_counter, last_velocities, prev_vel,
      qpos, qvel, step_no>>

env_vars == <<notes, sustains, wrong_press_termination, misfires>>

episode_vars == <<t_idx, should_terminate, discount>>

tracker_vars == <<goal_state, fingering_state, rh_keys, lh_keys>>

config_vars == <<disable_fingering_reward, disable_forearm_reward>>

current_vars == <<goal_current, rh_keys_current, lh_keys_current>>

reward_vars == <<config_vars, reward_fn, current_vars>>

vars ==
    <<pc, ik_vars, log, env_vars, episode_vars, failure_termination,
      tracker_vars, reward_vars>>

\* ------------------------------------------------------------ lookups

G1Attached == g1 = "G1Entity"

\* The arm joints the compiled physics model holds.
ModelJoints == IF G1Attached THEN asset.joints ELSE {}

\* physics.model.name2id(prefix + joint_name, "joint") finds the joint.
JointResolves(j) == G1Attached /\ asset.prefix_ok /\ j \in asset.joints

\* physics.model.name2id(f"g1_29dof_rev_1_0/{side}_wrist_yaw_link", "body").
BodyResolves(side) == G1Attached /\ asset.prefix_ok /\ side \in asset.bodies

\* self._g1.mjcf_model.find('joint', joint_name) is not None.
FindJoint(j) == j \in asset.joints

\* ------------------------------------------------------ Motion Limiter
\* The limiter without its acceleration stage.
LimitVelocityNoAcc(raw, prev) ==
    [j \in DOMAIN raw |->
        Clip(raw[j] * vel_scale, -(vel_limit * FP), vel_limit * FP)]

\* The limiter that clips before it scales.
LimitVelocityClipFirst(raw, prev) ==
    LET clipped == [j \in DOMAIN raw |->
                      Clip(raw[j], -(vel_limit * FP), vel_limit * FP)]
        scaled == [j \in DOMAIN raw |-> clipped[j] * vel_scale]
    IN  IF IsNone(prev)
        THEN scaled
        ELSE [j \in DOMAIN raw |->
                LET acc == (scaled[j] - Get(prev)[j]) * frequency
                    acc_limited == Clip(acc, -(acc_limit * FP), acc_limit * FP)
                IN  Get(prev)[j] + (acc_limited \div frequency)]

\* Lines 447-460: scale, clip to the velocity limit, then (when a previous
\* command exists) clip the acceleration against it.  prev is an optional.
LimitVelocity(raw, prev) ==
    LET scaled == [j \in DOMAIN raw |-> raw[j] * vel_scale]
        clipped == [j \in DOMAIN raw |->
                      Clip(scaled[j], -(vel_limit * FP), vel_limit * FP)]
    IN  IF IsNone(prev)
        THEN clipped
        ELSE [j \in DOMAIN raw |->
                LET acc == (clipped[j] - Get(prev)[j]) * frequency
                    acc_limited == Clip(acc, -(acc_limit * FP), acc_limit * FP)
                IN  Get(prev)[j] + (acc_limited \div frequency)]

\* --------------------------------------------- Joint Integrator/Writer
\* Lines 383-394: current_q holds the physics position of every joint whose
\* name resolves, and zero elsewhere.
CurrentQ(j) == IF JointResolves(j) THEN qpos[j] ELSE 0

\* An integration that starts from the zero configuration.
NewPosFromZero(vel, j) == vel[j] \div frequency

\* Lines 474, 482: the configuration after integrate_inplace(vel, rate.dt).
NewPos(vel, j) == CurrentQ(j) + (vel[j] \div frequency)

\* A written velocity whose corrective term has gain 1.
WrittenVelFullGain(vel, j) ==
    LET old_pos == qpos[j]
        pos_error == NewPos(vel, j) - old_pos
        correction_vel == pos_error * frequency
    IN  vel[j] + correction_vel

\* Lines 486-491: the velocity written, the corrective term included.
WrittenVel(vel, j) ==
    LET old_pos == qpos[j]
        pos_error == NewPos(vel, j) - old_pos
        correction_vel == pos_error * frequency
    IN  vel[j] + ((correction_vel * correction_gain_num) \div correction_gain_den)

\* The joints the write loop (lines 478-500) reaches: those whose mjcf
\* element is found.
WrittenJoints == {j \in all_joints : FindJoint(j)}

\* ------------------------------------------------------ _update_g1_arms
\* A try block whose handler re-raises.
LeavesTryUncaught(exc) == exc

\* except Exception (lines 511-519): whether an exception raised in the try
\* block leaves it.  The handler prints and swallows: nothing propagates.
LeavesTry(exc) == FALSE

\* A solver that ignores a task whose frame is not in the model.
SolveRaisesOnlyOnFailure(solver_ok) == ~solver_ok

\* mink.solve_ik (lines 438-445) raises when a task's frame is not in the
\* model, or when the QP solve fails.
SolveRaises(solver_ok) == (\E s \in Sides : ~BodyResolves(s)) \/ ~solver_ok

\* The body of the inner try block, up to the first exception.  The result
\* holds the attributes and physics state as the body left them, whether
\* solve_ik was invoked, and whether an exception ended the body.
UpdateBody(solver_ok, raw) ==
    LET same == [prev_vel |-> prev_vel, last_velocities |-> last_velocities,
                 qpos |-> qpos, qvel |-> qvel, solves |-> 0, exc |-> TRUE,
                 raw |-> None]
    IN  IF lookup_raises /\ (\E j \in all_joints : ~JointResolves(j))
        THEN same                                   \* line 385 raises
        ELSE IF lookup_raises /\ (\E s \in Sides : ~BodyResolves(s))
        THEN same                                   \* line 413 raises
        ELSE IF SolveRaises(solver_ok)
        THEN [same EXCEPT !.solves = 1]             \* solve_ik raises
        ELSE
            LET vel == LimitVelocity(raw, prev_vel)
                limited == [same EXCEPT !.solves = 1, !.raw = Some(raw),
                                        !.prev_vel = Some(vel)]
            IN  IF ~G1Attached
                THEN limited                        \* line 479: self._g1 is None
                ELSE
                    LET qpos2 == [j \in DOMAIN qpos |->
                                    IF j \in WrittenJoints
                                    THEN NewPos(vel, j) ELSE qpos[j]]
                        qvel2 == [j \in DOMAIN qvel |->
                                    IF j \in WrittenJoints
                                    THEN WrittenVel(vel, j) ELSE qvel[j]]
                    IN  [limited EXCEPT
                           !.qpos = qpos2,
                           !.qvel = qvel2,
                           !.last_velocities =
                               Some([j \in WrittenJoints |-> qvel2[j]]),
                           !.exc = FALSE]

\* _update_g1_arms: the body inside its two try blocks.
UpdateG1Arms(solver_ok, raw) ==
    LET r == UpdateBody(solver_ok, raw)
    IN  [prev_vel |-> r.prev_vel, last_velocities |-> r.last_velocities,
         qpos |-> r.qpos, qvel |-> r.qvel, solves |-> r.solves,
         raw |-> r.raw, failed |-> r.exc, propagated |-> LeavesTry(r.exc)]

\* ------------------------------------------------- goal / fingering state
Keys == 0 .. (NKeys - 1)

\* The note the schedule uses for key k; fingering 0-4 is the right hand,
\* 5-9 the left hand.
NoteOf(k) == [key |-> k, fingering |-> (3 * k + 2) % 10]

RECURSIVE NoteList(_, _)
\* The notes of the keys in ks that are >= k, in ascending key order.
NoteList(ks, k) ==
    IF k >= NKeys THEN <<>>
    ELSE IF k \in ks THEN <<NoteOf(k)>> \o NoteList(ks, k + 1)
    ELSE NoteList(ks, k + 1)

NoteLists == {NoteList(ks, 0) : ks \in SUBSET Keys}

SeqsUpTo(S, n) == UNION {[1 .. m -> S] : m \in 1 .. n}

KeysAt(t) == {notes[t + 1][n].key : n \in 1 .. Len(notes[t + 1])}

\* A window that stops one row early.
BuildGoalStateShortWindow(t) ==
    LET t_start == t
        t_end == Min(t_start + Lookahead, Len(notes))
    IN  [i \in 0 .. Lookahead |->
            [k \in 0 .. NKeys |->
                IF t_start + i < t_end
                THEN IF k = NKeys
                     THEN (IF sustains[t_start + i + 1] THEN 1 ELSE 0)
                     ELSE IF k \in KeysAt(t_start + i) THEN 1 ELSE 0
                ELSE 0]]

\* Lines 791-800: a zero array of shape [lookahead + 1][n_keys + 1] whose
\* rows t_start .. t_end - 1 are filled from the schedule.
BuildGoalState(t) ==
    LET t_start == t
        t_end == Min(t_start + Lookahead + 1, Len(notes))
    IN  [i \in 0 .. Lookahead |->
            [k \in 0 .. NKeys |->
                IF t_start + i < t_end
                THEN IF k = NKeys
                     THEN (IF sustains[t_start + i + 1] THEN 1 ELSE 0)
                     ELSE IF k \in KeysAt(t_start + i) THEN 1 ELSE 0
                ELSE 0]]

\* _update_goal_state without its end-of-schedule guard.
UpdateGoalStateUnguarded(t, gs) == Some(BuildGoalState(t))

\* _update_goal_state (lines 782-800); gs is the current self._goal_state.
UpdateGoalState(t, gs) ==
    IF t = Len(notes) THEN gs ELSE Some(BuildGoalState(t))

RECURSIVE HandKeysNoOffset(_, _, _)
\* A split that stores the left hand's fingers under their 5-9 indices.
HandKeysNoOffset(ns, n, right) ==
    IF n > Len(ns) THEN <<>>
    ELSE
        LET piano_key == ns[n].key
            finger == ns[n].fingering
        IN  IF right = (finger < 5)
            THEN <<(<<piano_key, finger>>)>> \o HandKeysNoOffset(ns, n + 1, right)
            ELSE HandKeysNoOffset(ns, n + 1, right)

RECURSIVE HandKeys(_, _, _)
\* Lines 810-817: the (key, finger) pairs of one hand, in note order.
HandKeys(ns, n, right) ==
    IF n > Len(ns) THEN <<>>
    ELSE
        LET piano_key == ns[n].key
            finger == ns[n].fingering
        IN  IF right /\ finger < 5
            THEN <<(<<piano_key, finger>>)>> \o HandKeys(ns, n + 1, right)
            ELSE IF ~right /\ ~(finger < 5)
            THEN <<(<<piano_key, finger - 5>>)>> \o HandKeys(ns, n + 1, right)
            ELSE HandKeys(ns, n + 1, right)

\* _update_fingering_state (lines 802-823).  exc: the body raised (an index
\* out of range).
UpdateFingeringState(t) ==
    LET same == [fingering_state |-> fingering_state, rh_keys |-> rh_keys,
                 lh_keys |-> lh_keys, exc |-> FALSE]
    IN  IF t = Len(notes)
        THEN same
        ELSE IF t > Len(notes)
        THEN [same EXCEPT !.exc = TRUE]         \* self._notes[self._t_idx]
        ELSE
            LET rh == HandKeys(notes[t + 1], 1, TRUE)
                lh == HandKeys(notes[t + 1], 1, FALSE)
                hands == <<rh, lh>>
            IN  [fingering_state |->
                     Some([hand \in 0 .. 1 |->
                             [f \in 0 .. 4 |->
                                 IF \E n \in 1 .. Len(hands[hand + 1]) :
                                        hands[hand + 1][n][2] = f
                                 THEN 1 ELSE 0]]),
                 rh_keys |-> rh, lh_keys |-> lh, exc |-> FALSE]

\* ------------------------------------------------------------ rewards
\* Rewards are fixed-point in millionths: Micro stands for 1.0.  Key travel
\* and pedal travel are fractions of the full range in units of 1/FP,
\* distances are metres in units of 1/FP, powers are in units of 1/FP.
Micro == FP * FP * FP

\* _KEY_CLOSE_ENOUGH_TO_PRESSED = 0.05, in units of 1/FP.
KEY_CLOSE_ENOUGH_TO_PRESSED == 5

\* _FINGER_CLOSE_ENOUGH_TO_KEY = 0.01, in units of 1/FP.
FINGER_CLOSE_ENOUGH_TO_KEY == 1

\* _ENERGY_PENALTY_COEF = 5e-3, in thousandths.
ENERGY_PENALTY_COEF == 5

\* What the physics state offers the rewards: the travel of a key, the
\* actuator power of a hand, and where along the keyboard a hand stands.
KeyLevels == {0, FP \div 2, FP}

PowerVals == {0, FP}

HandPos == {0, 9, 18}

RECURSIVE SumOver(_, _)
\* The sum of f over the set S.
SumOver(f, S) ==
    IF S = {} THEN 0
    ELSE LET x == CHOOSE y \in S : TRUE
         IN  f[x] + SumOver(f, S \ {x})

\* 0.1 ^ ((n / 10) ^ 2) in millionths, for n = 0, 1, 2, ...
GaussianTable ==
    <<1000000, 977237, 912011, 812831, 691831, 562341, 436516, 323594,
      229087, 154882, 100000, 61660, 36308, 20417, 10965, 5623, 2754, 1288,
      575, 245, 100, 39, 14, 5, 2, 1>>

\* The gaussian sigmoid of tolerance (value_at_margin = 0.1) at d10 tenths
\* of the margin.
Gaussian(d10) ==
    IF d10 + 1 <= Len(GaussianTable) THEN GaussianTable[d10 + 1] ELSE 0

\* tolerance(x, bounds=(0, upper), margin=margin, sigmoid="gaussian"): 1
\* inside the bounds, the gaussian of the distance to them outside.
Tolerance(x, upper, margin) ==
    IF 0 <= x /\ x <= upper
    THEN Micro
    ELSE LET d == IF x < 0 THEN 0 - x ELSE x - upper
         IN  Gaussian((d * 10) \div margin)

\* self.piano.activation[k]: the key is pressed to the end of its travel.
Activation(key_state, k) == key_state[k] = FP

\* self.piano.activation[off].any() for the keys the goal row gc wants off
\* (lines 707-708; the parent's after_step tests the same).
AnyOffActive(gc, key_state) ==
    LET off == {k \in Keys : 1 - gc[k] # 0}
    IN  \E k \in off : Activation(key_state, k)

\* A key-press reward whose off-term is graded by the share of the off
\* keys that are active.
KeyPressRewardFraction(gc, key_state) ==
    LET on == {k \in Keys : gc[k] # 0}
        rews == [k \in on |->
                   Tolerance(gc[k] * FP - key_state[k],
                             KEY_CLOSE_ENOUGH_TO_PRESSED,
                             KEY_CLOSE_ENOUGH_TO_PRESSED * 10)]
        on_term == IF Cardinality(on) > 0
                   THEN (SumOver(rews, on) \div Cardinality(on)) \div 2
                   ELSE 0
        off == {k \in Keys : 1 - gc[k] # 0}
        active == {k \in off : Activation(key_state, k)}
    IN  on_term
          + (IF off = {} THEN Micro \div 2
             ELSE ((Micro \div 2) * (Cardinality(off) - Cardinality(active)))
                     \div Cardinality(off))

\* _compute_key_press_reward (lines 690-709).
KeyPressReward(gc, key_state) ==
    LET on == {k \in Keys : gc[k] # 0}
        rews == [k \in on |->
                   Tolerance(gc[k] * FP - key_state[k],
                             KEY_CLOSE_ENOUGH_TO_PRESSED,
                             KEY_CLOSE_ENOUGH_TO_PRESSED * 10)]
        on_term == IF Cardinality(on) > 0
                   THEN (SumOver(rews, on) \div Cardinality(on)) \div 2
                   ELSE 0
        false_positive == IF AnyOffActive(gc, key_state) THEN 1 ELSE 0
    IN  on_term + (Micro \div 2) * (1 - false_positive)

\* A sustain term that only penalises: 0 for a matched pedal.
SustainRewardPenaltyOnly(gc, sustain_activation) ==
    Tolerance(gc[NKeys] * FP - sustain_activation,
              KEY_CLOSE_ENOUGH_TO_PRESSED, KEY_CLOSE_ENOUGH_TO_PRESSED * 10)
        - Micro

\* _compute_sustain_reward (lines 672-680).
SustainReward(gc, sustain_activation) ==
    Tolerance(gc[NKeys] * FP - sustain_activation,
              KEY_CLOSE_ENOUGH_TO_PRESSED, KEY_CLOSE_ENOUGH_TO_PRESSED * 10)

\* _compute_energy_reward (lines 682-688).
EnergyReward(power) ==
    LET penalty == [s \in Sides |->
                      (ENERGY_PENALTY_COEF * power[s] * Micro)
                          \div (1000 * FP)]
    IN  0 - SumOver(penalty, Sides)

\* _compute_forearm_reward (lines 662-670).
ForearmReward(collision) == IF collision THEN 0 ELSE Micro \div 2

\* The distance between fingertip f of a hand and the pressing point of a
\* key (lines 719-726, 759-769): the keys lie one unit apart along the
\* keyboard and the fingertips of a hand one unit apart from where the hand
\* stands.
Distance(hand_x, side, f, key) ==
    LET tip == hand_x[side] + f
    IN  IF tip < key THEN key - tip ELSE tip - key

\* The mean of the fingertip tolerances of a non-empty family of distances.
MeanFingerTolerance(dist, S) ==
    LET rews == [p \in S |->
                   Tolerance(dist[p], FINGER_CLOSE_ENOUGH_TO_KEY,
                             FINGER_CLOSE_ENOUGH_TO_KEY * 10)]
    IN  SumOver(rews, S) \div Cardinality(S)

\* A direct fingering reward that scores an empty assignment as a success.
FingeringRewardDefaultOne(rh, lh, hand_x) ==
    LET of_hand(hk, side) ==
            [n \in 1 .. Len(hk) |-> Distance(hand_x, side, hk[n][2], hk[n][1])]
        distances == of_hand(rh, "right") \o of_hand(lh, "left")
    IN  IF Len(distances) = 0
        THEN Micro
        ELSE MeanFingerTolerance(distances, DOMAIN distances)

\* _compute_fingering_reward (lines 711-742); rh and lh are the current
\* per-hand lists of (key, finger) pairs.
FingeringReward(rh, lh, hand_x) ==
    LET of_hand(hk, side) ==
            [n \in 1 .. Len(hk) |-> Distance(hand_x, side, hk[n][2], hk[n][1])]
        distances == of_hand(rh, "right") \o of_hand(lh, "left")
    IN  IF Len(distances) = 0
        THEN 0
        ELSE MeanFingerTolerance(distances, DOMAIN distances)

\* The fingertips of both hands (lines 747-748).
Fingertips == Sides \X (0 .. 4)

\* keys_to_press (line 751).
KeysToPress(gc) == {k \in Keys : gc[k] # 0}

\* dist (lines 766-769): fingertips by keys to press.
DistMatrix(gc, hand_x) ==
    [p \in Fingertips \X KeysToPress(gc) |->
        Distance(hand_x, p[1][1], p[1][2], p[2])]

RECURSIVE MinCost(_, _, _)
\* The least total cost of giving every element of small its own element
\* of large.
MinCost(cost, small, large) ==
    IF small = {} THEN 0
    ELSE LET s == CHOOSE x \in small : TRUE
             totals == {cost[s, l] + MinCost(cost, small \ {s}, large \ {l}) :
                           l \in large}
         IN  CHOOSE m \in totals : \A t \in totals : m <= t

\* An assignment that gives every column a nearest row, shared or not.
NearestRowAssignment(dist, rows, cols) ==
    LET nearest(c) == {r \in rows : \A q \in rows : dist[r, c] <= dist[q, c]}
    IN  {{<<g[c], c>> : c \in cols} :
            g \in {h \in [cols -> rows] : \A c \in cols : h[c] \in nearest(c)}}

\* scipy.optimize.linear_sum_assignment(dist) (line 772): the assignments
\* it may return, each a set of (row, column) pairs.  It pairs every
\* element of the smaller side with its own element of the other side at
\* the least total cost; which one of several least-cost assignments it
\* returns is left to the solver.
LinearSumAssignment(dist, rows, cols) ==
    LET by_col == Cardinality(cols) <= Cardinality(rows)
        small == IF by_col THEN cols ELSE rows
        large == IF by_col THEN rows ELSE cols
        pair(s, l) == IF by_col THEN <<l, s>> ELSE <<s, l>>
        cost == [q \in small \X large |-> dist[pair(q[1], q[2])]]
        best == MinCost(cost, small, large)
        one_to_one == {g \in [small -> large] :
                          \A a, b \in small : a # b => g[a] # g[b]}
    IN  {m \in {{pair(s, g[s]) : s \in small} : g \in one_to_one} :
            SumOver([p \in m |-> dist[p]], m) = best}

\* _compute_ot_fingering_reward (lines 744-780), given the assignment the
\* solver returned.
OtFingeringReward(gc, hand_x, assignment) ==
    IF Cardinality(KeysToPress(gc)) = 0
    THEN Micro
    ELSE MeanFingerTolerance(DistMatrix(gc, hand_x), assignment)

\* The assignments the solver may return to _compute_ot_fingering_reward;
\* it is not called when no key is to be pressed.
OtAssignments(gc, hand_x) ==
    IF Cardinality(KeysToPress(gc)) = 0
    THEN {{}}
    ELSE LinearSumAssignment(DistMatrix(gc, hand_x), Fingertips,
                             KeysToPress(gc))

\* A registration that adds the optimal-transport term unconditionally.
SetRewardsBoth ==
    {"key_press_reward", "sustain_reward", "energy_reward",
     "ot_fingering_reward"}
        \cup (IF ~disable_fingering_reward THEN {"fingering_reward"} ELSE {})
        \cup (IF ~disable_forearm_reward THEN {"forearm_reward"} ELSE {})

\* _set_rewards (lines 239-253): the names of the registered terms.
SetRewards ==
    {"key_press_reward", "sustain_reward", "energy_reward"}
        \cup (IF ~disable_fingering_reward
              THEN {"fingering_reward"}
              ELSE {"ot_fingering_reward"})
        \cup (IF ~disable_forearm_reward THEN {"forearm_reward"} ELSE {})

\* The value of one registered term on a scene.
RewardTerm(name, scene, assignment) ==
    CASE name = "key_press_reward" ->
            KeyPressReward(Get(goal_current), scene.key_state)
      [] name = "sustain_reward" ->
            SustainReward(Get(goal_current), scene.sustain_activation)
      [] name = "energy_reward" -> EnergyReward(scene.power)
      [] name = "fingering_reward" ->
            FingeringReward(Get(rh_keys_current), Get(lh_keys_current),
                            scene.hand_x)
      [] name = "ot_fingering_reward" ->
            OtFingeringReward(Get(goal_current), scene.hand_x, assignment)
      [] name = "forearm_reward" -> ForearmReward(scene.collision)

\* CompositeReward.compute: the sum of the registered terms.
ComputeReward(terms) == SumOver(terms, DOMAIN terms)

\* ------------------------------------------------------------ history
\* The record a handler leaves in log: its name, how many times it invoked
\* _update_g1_arms and mink.solve_ik, whether the update failed inside its
\* try block, whether an exception left the handler, whether the hold
\* branch ran, the solver output and previous command of a solve, and what
\* get_reward saw and returned.
Did(op) ==
    [op |-> op, ik_updates |-> 0, solves |-> 0, failed |-> FALSE,
     propagated |-> FALSE, held |-> FALSE, raw |-> None,
     prev_before |-> None, step |-> 0, reward |-> None]

Solved(op, r, before) ==
    [Did(op) EXCEPT !.ik_updates = 1, !.solves = r.solves,
                    !.failed = r.failed, !.propagated = r.propagated,
                    !.raw = r.raw, !.prev_before = before]

\* ------------------------------------------------------------ __init__
\* add_g1 without its try block: the error reaches the constructor.
AddG1Surfaces ==
    LET raised == ~asset.found \/ ~asset.attaches
    IN  [g1 |-> IF raised THEN "unset" ELSE "G1Entity", propagated |-> raised]

\* add_g1 (lines 125-163): the whole body is one try block whose handler
\* prints and sets self._g1 = None.
AddG1 ==
    LET raised == ~asset.found \/ ~asset.attaches
    IN  [g1 |-> IF raised THEN "None" ELSE "G1Entity",
         propagated |-> LeavesTry(raised) /\ raised]

\* An episode reset that forgets the timestep index.
ResetQuantitiesKeepIndex ==
    /\ t_idx' = t_idx
    /\ should_terminate' = FALSE
    /\ discount' = 1

\* _reset_quantities_at_episode_init (lines 255-258).
ResetQuantitiesAtEpisodeInit ==
    /\ t_idx' = 0
    /\ should_terminate' = FALSE
    /\ discount' = 1

\* __init__ (lines 51-74); the parent constructor resets the episode
\* quantities and registers the reward terms.  An exception leaving add_g1
\* would leave the constructor.
Construct ==
    /\ pc = "new"
    /\ LET r == AddG1
       IN  /\ g1' = r.g1
           /\ pc' = IF r.propagated THEN "construct_failed" ELSE "reset"
           /\ LET joints == IF r.g1 = "G1Entity" THEN asset.joints ELSE {}
              IN  /\ qpos' = [j \in joints |-> 0]
                  /\ qvel' = [j \in joints |-> 0]
           /\ log' = [Did("init") EXCEPT !.propagated = r.propagated]
    /\ ResetQuantitiesAtEpisodeInit
    /\ reward_fn' = SetRewards
    /\ ik_counter' = 0
    /\ last_velocities' = None
    /\ UNCHANGED <<asset, lookup_raises, prev_vel, step_no, env_vars,
                   failure_termination, tracker_vars, config_vars,
                   current_vars>>

\* ---------------------------------------------------- initialize_episode
\* _initialize_g1_position (lines 165-203) reaches _update_g1_arms when the
\* G1 is there and its root body resolves; a raising lookup is caught by
\* the method's own try block.
InitReachesUpdate == G1Attached /\ asset.prefix_ok

\* An episode reset that also restarts the IK schedule.
InitializeEpisodeRestartsSchedule ==
    /\ pc = "initialize_episode"
    /\ ResetQuantitiesAtEpisodeInit
    /\ ik_counter' = 0
    /\ IF InitReachesUpdate
       THEN \E solver_ok \in BOOLEAN, raw \in [ModelJoints -> RawVals] :
              LET r == UpdateG1Arms(solver_ok, raw)
              IN  /\ prev_vel' = r.prev_vel
                  /\ last_velocities' = r.last_velocities
                  /\ qpos' = r.qpos
                  /\ qvel' = r.qvel
                  /\ log' = Solved("initialize_episode", r, prev_vel)
                  /\ pc' = IF r.propagated THEN "aborted" ELSE "reset_goal"
       ELSE /\ UNCHANGED <<prev_vel, last_velocities, qpos, qvel>>
            /\ log' = Did("initialize_episode")
            /\ pc' = "reset_goal"
    /\ UNCHANGED <<asset, lookup_raises, g1, step_no, env_vars,
                   failure_termination, tracker_vars, reward_vars>>

\* initialize_episode (lines 205-236), entered with the physics state reset
\* by the harness.
InitializeEpisode ==
    /\ pc = "initialize_episode"
    /\ ResetQuantitiesAtEpisodeInit
    /\ IF InitReachesUpdate
       THEN \E solver_ok \in BOOLEAN, raw \in [ModelJoints -> RawVals] :
              LET r == UpdateG1Arms(solver_ok, raw)
              IN  /\ prev_vel' = r.prev_vel
                  /\ last_velocities' = r.last_velocities
                  /\ qpos' = r.qpos
                  /\ qvel' = r.qvel
                  /\ log' = Solved("initialize_episode", r, prev_vel)
                  /\ pc' = IF r.propagated THEN "aborted" ELSE "reset_goal"
       ELSE /\ UNCHANGED <<prev_vel, last_velocities, qpos, qvel>>
            /\ log' = Did("initialize_episode")
            /\ pc' = "reset_goal"
    /\ UNCHANGED <<asset, lookup_raises, g1, ik_counter, step_no, env_vars,
                   failure_termination, tracker_vars, reward_vars>>

\* ------------------------------------------------------------ before_step
\* A hold branch that leaves the physics state alone.
HoldStepNoWrite == [qvel |-> qvel, exc |-> FALSE]

\* A hold branch that does not test whether the joint element exists.
HoldStepUnchecked ==
    IF IsNone(last_velocities)
    THEN [qvel |-> qvel, exc |-> FALSE]
    ELSE IF ~G1Attached
              \/ \E j \in all_joints :
                    ~FindJoint(j) \/ j \notin DOMAIN Get(last_velocities)
    THEN [qvel |-> qvel, exc |-> TRUE]
    ELSE [qvel |-> [j \in DOMAIN qvel |-> Get(last_velocities)[j]],
          exc |-> FALSE]

\* The hold branch (lines 538-545).  Nothing there is inside a try block:
\* a missing entity or a missing key would leave before_step.
HoldStep ==
    IF IsNone(last_velocities)
    THEN [qvel |-> qvel, exc |-> FALSE]
    ELSE IF ~G1Attached
    THEN [qvel |-> qvel, exc |-> TRUE]          \* self._g1 is None
    ELSE IF \E j \in all_joints :
                FindJoint(j) /\ j \notin DOMAIN Get(last_velocities)
    THEN [qvel |-> qvel, exc |-> TRUE]          \* KeyError
    ELSE [qvel |-> [j \in DOMAIN qvel |->
                      IF FindJoint(j) THEN Get(last_velocities)[j]
                      ELSE qvel[j]],
          exc |-> FALSE]

\* The schedule that solves on the last call of each period.
IkDueLate == (ik_counter + 1) % ik_update_rate = 0

\* Line 534: the IK solve runs on this call.
IkDue == ik_counter % ik_update_rate = 0

\* before_step (lines 521-547).
BeforeStep ==
    /\ pc = "before_step"
    /\ step_no < MaxSteps
    /\ step_no' = step_no + 1
    /\ IF IkDue
       THEN \E solver_ok \in BOOLEAN, raw \in [ModelJoints -> RawVals] :
              LET r == UpdateG1Arms(solver_ok, raw)
              IN  /\ prev_vel' = r.prev_vel
                  /\ last_velocities' = r.last_velocities
                  /\ qpos' = r.qpos
                  /\ qvel' = r.qvel
                  /\ log' = [Solved("before_step", r, prev_vel)
                               EXCEPT !.step = step_no]
                  /\ ik_counter' = IF r.propagated THEN ik_counter ELSE 0 + 1
                  /\ pc' = IF r.propagated THEN "aborted" ELSE "physics"
       ELSE LET h == HoldStep
            IN  /\ qvel' = h.qvel
                /\ log' = [Did("before_step") EXCEPT
                             !.held = TRUE, !.propagated = h.exc,
                             !.step = step_no]
                /\ ik_counter' = IF h.exc THEN ik_counter ELSE ik_counter + 1
                /\ pc' = IF h.exc THEN "aborted" ELSE "physics"
                /\ UNCHANGED <<prev_vel, last_velocities, qpos>>
    /\ UNCHANGED <<asset, lookup_raises, g1, env_vars, episode_vars,
                   failure_termination, tracker_vars, reward_vars>>

\* --------------------------------------------------------- the harness
\* The physics integrator between before_step and after_step: it leaves
\* the arm joints at some position and either keeps or loses their
\* velocity.
PhysicsStep ==
    /\ pc = "physics"
    /\ \E p \in PosVals, keeps \in BOOLEAN :
          /\ qpos' = [j \in DOMAIN qpos |-> p]
          /\ qvel' = [j \in DOMAIN qvel |-> IF keeps THEN qvel[j] ELSE 0]
    /\ pc' = "after_step"
    /\ log' = Did("physics")
    /\ UNCHANGED <<asset, lookup_raises, g1, ik_counter, last_velocities,
                   prev_vel, step_no, env_vars, episode_vars,
                   failure_termination, tracker_vars, reward_vars>>

\* The harness resets the physics state before initialize_episode.
ResetPhysics ==
    /\ pc = "reset"
    /\ qpos' = [j \in DOMAIN qpos |-> 0]
    /\ qvel' = [j \in DOMAIN qvel |-> 0]
    /\ pc' = "initialize_episode"
    /\ log' = Did("reset_physics")
    /\ UNCHANGED <<asset, lookup_raises, g1, ik_counter, last_velocities,
                   prev_vel, step_no, env_vars, episode_vars,
                   failure_termination, tracker_vars, reward_vars>>

\* after_step (lines 549-614) calls the parent's after_step, which advances
\* the timestep index, sets the terminate flag at the last schedule index,
\* records whether a key that must be off is active, and takes row 0 of the
\* goal state and (with the fingering reward enabled) the per-hand key
\* lists as the ones the rewards of this step are scored against.
AfterStep ==
    /\ pc = "after_step"
    /\ t_idx' = t_idx + 1
    /\ should_terminate' = ((t_idx' - 1) = (Len(notes) - 1))
    /\ failure_termination' \in (IF misfires THEN BOOLEAN ELSE {FALSE})
    /\ pc' = "step_goal"
    /\ log' = Did("after_step")
    /\ goal_current' = Some(Get(goal_state)[0])
    /\ IF ~disable_fingering_reward
       THEN /\ rh_keys_current' = Some(rh_keys)
            /\ lh_keys_current' = Some(lh_keys)
       ELSE UNCHANGED <<rh_keys_current, lh_keys_current>>
    /\ UNCHANGED <<ik_vars, env_vars, discount, tracker_vars, config_vars,
                   reward_fn>>

\* The goal observable (lines 843-846).
GetGoalState ==
    /\ pc \in {"reset_goal", "step_goal"}
    /\ goal_state' = UpdateGoalState(t_idx, goal_state)
    /\ pc' = IF pc = "reset_goal" THEN "reset_fingering" ELSE "step_fingering"
    /\ log' = Did("update_goal_state")
    /\ UNCHANGED <<ik_vars, env_vars, episode_vars, failure_termination,
                   fingering_state, rh_keys, lh_keys, reward_vars>>

\* The fingering observable (lines 853-860); the harness evaluates it only
\* while it is enabled, which is when the fingering reward is not disabled.
GetFingeringState ==
    /\ pc \in {"reset_fingering", "step_fingering"}
    /\ LET r == IF disable_fingering_reward
                THEN [fingering_state |-> fingering_state,
                      rh_keys |-> rh_keys, lh_keys |-> lh_keys, exc |-> FALSE]
                ELSE UpdateFingeringState(t_idx)
       IN  /\ fingering_state' = r.fingering_state
           /\ rh_keys' = r.rh_keys
           /\ lh_keys' = r.lh_keys
           /\ log' = [Did("update_fingering_state") EXCEPT
                        !.propagated = r.exc]
           /\ pc' = IF r.exc THEN "aborted"
                    ELSE IF pc = "reset_fingering" THEN "before_step"
                    ELSE "terminate"
    /\ UNCHANGED <<ik_vars, env_vars, episode_vars, failure_termination,
                   goal_state, reward_vars>>

\* get_discount (lines 619-621).
GetDiscount == discount

\* A termination test that zeroes the discount on every termination.
ShouldTerminateEpisodeZeroOnEnd ==
    /\ pc = "terminate"
    /\ IF should_terminate \/ (wrong_press_termination /\ failure_termination)
       THEN /\ discount' = 0
            /\ pc' = "reset"
       ELSE /\ pc' = "before_step"
            /\ UNCHANGED discount
    /\ log' = Did("should_terminate_episode")
    /\ UNCHANGED <<ik_vars, env_vars, t_idx, should_terminate,
                   failure_termination, tracker_vars, reward_vars>>

\* should_terminate_episode (lines 623-630).
ShouldTerminateEpisode ==
    /\ pc = "terminate"
    /\ IF should_terminate
       THEN /\ pc' = "reset"
            /\ UNCHANGED discount
       ELSE IF wrong_press_termination /\ failure_termination
       THEN /\ discount' = 0
            /\ pc' = "reset"
       ELSE /\ pc' = "before_step"
            /\ UNCHANGED discount
    /\ log' = Did("should_terminate_episode")
    /\ UNCHANGED <<ik_vars, env_vars, t_idx, should_terminate,
                   failure_termination, tracker_vars, reward_vars>>

\* get_reward (lines 616-617), asked once per step after the observables.
\* The scene is the physics state the registered terms read (both hands
\* draw the same power; contacts are looked up by the forearm term only);
\* the keys that are off in the goal row are active in it exactly when
\* after_step found them so.
GetReward ==
    /\ pc = "terminate"
    /\ log.op = "update_fingering_state"
    /\ \E hand_x \in [Sides -> HandPos] :
       \E assignment \in (IF "ot_fingering_reward" \in reward_fn
                          THEN OtAssignments(Get(goal_current), hand_x)
                          ELSE {{}}) :
       \E key_state \in [Keys -> KeyLevels], sustain_activation \in {0, FP},
          power \in {[s \in Sides |-> p] : p \in PowerVals},
          collision \in (IF "forearm_reward" \in reward_fn
                         THEN BOOLEAN ELSE {FALSE}) :
          /\ failure_termination = AnyOffActive(Get(goal_current), key_state)
          /\ LET scene == [hand_x |-> hand_x, key_state |-> key_state,
                           sustain_activation |-> sustain_activation,
                           power |-> power, collision |-> collision]
                 terms == [name \in reward_fn |->
                             RewardTerm(name, scene, assignment)]
             IN  log' = [Did("get_reward") EXCEPT
                           !.reward = Some([scene |-> scene,
                                            assignment |-> assignment,
                                            terms |-> terms,
                                            total |-> ComputeReward(terms)])]
    /\ UNCHANGED <<pc, ik_vars, env_vars, episode_vars, failure_termination,
                   tracker_vars, reward_vars>>

\* ------------------------------------------------------- specifications
Schedules ==
    {<<ns, ss>> \in SeqsUpTo(NoteLists, MaxLen) \X SeqsUpTo(BOOLEAN, MaxLen) :
        Len(ns) = Len(ss)}

InitCommon ==
    /\ pc = "new"
    /\ g1 = "unset"
    /\ ik_counter = 0
    /\ last_velocities = None
    /\ prev_vel = None
    /\ qpos = <<>>
    /\ qvel = <<>>
    /\ step_no = 0
    /\ log = Did("none")
    /\ t_idx = 0
    /\ should_terminate = FALSE
    /\ failure_termination = FALSE
    /\ discount = 1
    /\ goal_state = None
    /\ fingering_state = None
    /\ rh_keys = <<>>
    /\ lh_keys = <<>>
    /\ reward_fn = {}
    /\ goal_current = None
    /\ rh_keys_current = None
    /\ lh_keys_current = None

\* The arm controller under every deployment, on one two-step schedule.
Init ==
    /\ InitCommon
    /\ asset \in Assets
    /\ lookup_raises \in BOOLEAN
    /\ notes = <<NoteList({0}, 0), <<>> >>
    /\ sustains = <<FALSE, TRUE>>
    /\ wrong_press_termination = FALSE
    /\ misfires = FALSE
    /\ disable_fingering_reward = FALSE
    /\ disable_forearm_reward = FALSE

\* The goal / fingering tracker on every schedule, without a G1 model.
InitTracker ==
    /\ InitCommon
    /\ asset = AssetMissing
    /\ lookup_raises = FALSE
    /\ \E sch \in Schedules : notes = sch[1] /\ sustains = sch[2]
    /\ wrong_press_termination \in BOOLEAN
    /\ misfires = TRUE
    /\ disable_fingering_reward = FALSE
    /\ disable_forearm_reward = FALSE

Next ==
    \/ Construct
    \/ ResetPhysics
    \/ InitializeEpisode
    \/ GetGoalState
    \/ GetFingeringState
    \/ BeforeStep
    \/ PhysicsStep
    \/ AfterStep
    \/ ShouldTerminateEpisode

\* The rewards of one-step schedules, under every reward configuration,
\* without a G1 model.
InitReward ==
    /\ InitCommon
    /\ asset = AssetMissing
    /\ lookup_raises = FALSE
    /\ \E ks \in SUBSET Keys : notes = <<NoteList(ks, 0)>>
    /\ sustains \in {<<FALSE>>, <<TRUE>>}
    /\ wrong_press_termination = FALSE
    /\ misfires = TRUE
    /\ disable_fingering_reward \in BOOLEAN
    /\ disable_forearm_reward \in BOOLEAN

\* The first step of the first episode, up to its reward.
NextReward ==
    \/ Construct
    \/ ResetPhysics
    \/ InitializeEpisode
    \/ GetGoalState
    \/ GetFingeringState
    \/ BeforeStep
    \/ PhysicsStep
    \/ AfterStep
    \/ GetReward

Spec == Init /\ [][Next]_vars

SpecTracker == InitTracker /\ [][Next]_vars

SpecReward == InitReward /\ [][NextReward]_vars

\* ================================================================ claims
Abs(x) == IF x < 0 THEN -x ELSE x

\* The last handler ran the Motion Limiter (a solve returned).
Limited == ~IsNone(log.raw)

\* C1: after any sequence of IK solves with arbitrary raw solver outputs,
\* every component of the limited velocity command lies in [-v_max, v_max]
\* (v_max = 2.0), and for every solve that had a previous command every
\* component of (current command - previous command) / dt lies in
\* [-a_max, a_max] (a_max = 20.0).
C1_LimiterBound ==
    /\ ~IsNone(prev_vel) =>
          \A j \in DOMAIN Get(prev_vel) : Abs(Get(prev_vel)[j]) <= 2 * FP
    /\ (Limited /\ ~IsNone(log.prev_before)) =>
          \A j \in DOMAIN Get(prev_vel) :
              Abs((Get(prev_vel)[j] - Get(log.prev_before)[j]) * frequency)
                  <= 20 * FP

\* A solve in which both the velocity clip and the acceleration clip bit.
C1_Witness ==
    /\ Limited
    /\ ~IsNone(log.prev_before)
    /\ \E j \in DOMAIN Get(prev_vel) :
          /\ Abs(Get(log.raw)[j] * 2) > 2 * FP
          /\ Get(prev_vel)[j] # Clip(Get(log.raw)[j] * 2, -(2 * FP), 2 * FP)

\* C2: the limiter output equals raw times the scale factor, clipped
\* component-wise to [-v_max, v_max], then, if a previous command exists,
\* previous + clip((that - previous) / dt, -a_max, a_max) * dt; on the
\* first call, with no previous velocity, the last stage is skipped; the
\* output is stored as the previous command.
C2_LimiterPolicy ==
    Limited =>
        /\ ~IsNone(prev_vel)
        /\ DOMAIN Get(prev_vel) = DOMAIN Get(log.raw)
        /\ \A j \in DOMAIN Get(log.raw) :
              LET stage1 == Get(log.raw)[j] * 2
                  stage2 == IF stage1 > 2 * FP THEN 2 * FP
                            ELSE IF stage1 < -(2 * FP) THEN -(2 * FP)
                            ELSE stage1
              IN  IF IsNone(log.prev_before)
                  THEN Get(prev_vel)[j] = stage2
                  ELSE LET p == Get(log.prev_before)[j]
                           a == (stage2 - p) * frequency
                           a3 == IF a > 20 * FP THEN 20 * FP
                                 ELSE IF a < -(20 * FP) THEN -(20 * FP)
                                 ELSE a
                       IN  Get(prev_vel)[j] * frequency = p * frequency + a3

\* The first solve ever (no previous command), with a component clipped.
C2_Witness ==
    /\ Limited
    /\ IsNone(log.prev_before)
    /\ \E j \in DOMAIN Get(log.raw) : Get(log.raw)[j] * 2 > 2 * FP
    /\ \E j \in DOMAIN Get(log.raw) : Abs(Get(log.raw)[j] * 2) < 2 * FP

\* C3: each call of before_step invokes at most one IK solve, and counting
\* before_step calls from construction the IK update runs on exactly the
\* calls numbered 0, N, 2N, ... (N = 5) and on no other call.
C3_Schedule ==
    log.op = "before_step" =>
        /\ log.ik_updates <= 1
        /\ log.solves <= log.ik_updates
        /\ (log.ik_updates = 1) <=> (log.step % 5 = 0)
        /\ log.held <=> (log.step % 5 # 0)

\* The call numbered 2N runs the update.
C3_Witness ==
    /\ log.op = "before_step"
    /\ log.step = 2 * 5
    /\ log.ik_updates = 1
    /\ log.solves = 1

\* C4 (as claimed): on every before_step in which the IK solve is skipped,
\* each arm joint is written with exactly the Motion Limiter's last output
\* for that joint.
C4_HoldWritesLimiterOutput ==
    (log.op = "before_step" /\ log.held /\ ~IsNone(prev_vel)) =>
        \A j \in DOMAIN Get(prev_vel) \cap DOMAIN qvel :
            qvel[j] = Get(prev_vel)[j]

\* C4 (amended): a before_step that skips the IK solve writes no joint
\* position and leaves both caches alone; when an IK update has completed
\* before, it sets the velocity of every resolved arm joint to the velocity
\* that update wrote to physics, which is the limiter output plus the
\* 0.8-gain corrective term (1.8 times the limiter output), and otherwise
\* it writes nothing.
C4_HoldWritesStoredVelocity ==
    [][(log'.op = "before_step" /\ log'.held) =>
          /\ UNCHANGED <<qpos, prev_vel, last_velocities>>
          /\ IF IsNone(last_velocities)
             THEN qvel' = qvel
             ELSE \A j \in DOMAIN Get(last_velocities) :
                    /\ qvel'[j] = Get(last_velocities)[j]
                    /\ qvel'[j] * 10 = Get(prev_vel)[j] * 18]_vars

\* A hold step that wrote a velocity different from the limiter output.
C4_Witness ==
    /\ log.op = "before_step"
    /\ log.held
    /\ ~IsNone(last_velocities)
    /\ \E j \in DOMAIN Get(last_velocities) :
          /\ qvel[j] # 0
          /\ qvel[j] = Get(last_velocities)[j]
          /\ qvel[j] # Get(prev_vel)[j]

\* C5: for any failure raised inside the IK update during a step, before_step
\* returns normally without propagating an exception, on solve steps and on
\* hold steps, for every reachable state of the caches.
C5_StepNeverAborts ==
    log.op = "before_step" => (~log.propagated /\ pc = "physics")

\* A solve step whose IK update failed with both caches populated.
C5_Witness ==
    /\ log.op = "before_step"
    /\ log.failed
    /\ ~IsNone(last_velocities)
    /\ ~IsNone(prev_vel)
    /\ pc = "physics"

\* Some joint or the wrist frame of the limb does not resolve.
LimbUnresolved(s) ==
    (\E j \in JointsOf(s) : ~JointResolves(j)) \/ ~BodyResolves(s)

\* The entries of one limb in an optional joint -> velocity map.
LimbEntries(o, s) ==
    IF IsNone(o) THEN None
    ELSE Some([j \in DOMAIN Get(o) \cap JointsOf(s) |-> Get(o)[j]])

C7_SetupFailureIsFatal ==
    /\ (pc # "new" /\ (~asset.found \/ ~asset.attaches))
          => pc = "construct_failed"
    /\ pc \notin {"new", "construct_failed"} => g1 = "G1Entity"

\* C7 (amended): if the humanoid model cannot be found or attached during
\* construction, add_g1 absorbs the error and sets _g1 to None; the
\* construction completes and returns a task without the humanoid, and no
\* error reaches the caller.
C7_SetupFailureIsAbsorbed ==
    pc # "new" =>
        /\ pc # "construct_failed"
        /\ g1 = IF asset.found /\ asset.attaches THEN "G1Entity" ELSE "None"

\* A constructed task without the humanoid.
C7_Witness ==
    /\ pc = "reset"
    /\ log.op = "init"
    /\ ~log.propagated
    /\ g1 = "None"

\* C8: within an episode the timestep index never decreases, it is set to 0
\* exactly at episode start (and at no other point), and it never exceeds
\* the length of the note schedule.
C8_TimestepIndex ==
    /\ [](t_idx >= 0 /\ t_idx <= Len(notes))
    /\ [][/\ log'.op = "initialize_episode" => t_idx' = 0
          /\ log'.op # "initialize_episode" => t_idx' >= t_idx
          /\ (t_idx' = 0 /\ t_idx # 0) => log'.op = "initialize_episode"]_vars

\* An episode start that takes the index back from the end of the schedule.
C8_Witness ==
    /\ log.op = "initialize_episode"
    /\ step_no >= Len(notes)
    /\ should_terminate = FALSE
    /\ t_idx = 0

\* C9: after _update_goal_state at timestep index t < len(schedule) the goal
\* state has shape [lookahead + 1][num_keys + 1]; for every row i with
\* t + i < len(schedule), entry [i][k] is 1 exactly when key k is in the
\* schedule's note set at t + i and 0 otherwise, and the last column equals
\* the sustain flag at t + i; every row with t + i >= len(schedule) is all
\* zeros; nothing survives from the previous query.
C9_GoalStateContent ==
    (log.op = "update_goal_state" /\ t_idx < Len(notes)) =>
        /\ ~IsNone(goal_state)
        /\ DOMAIN Get(goal_state) = 0 .. Lookahead
        /\ \A i \in 0 .. Lookahead :
              LET row == Get(goal_state)[i]
              IN  /\ DOMAIN row = 0 .. NKeys
                  /\ IF t_idx + i < Len(notes)
                     THEN /\ \A k \in 0 .. (NKeys - 1) :
                                row[k] = IF \E n \in DOMAIN notes[t_idx + i + 1] :
                                              notes[t_idx + i + 1][n].key = k
                                         THEN 1 ELSE 0
                          /\ row[NKeys] = IF sustains[t_idx + i + 1] THEN 1 ELSE 0
                     ELSE \A k \in 0 .. NKeys : row[k] = 0

\* A query past the first timestep whose window runs over the schedule end:
\* row 0 holds a key and the pedal, the last row is beyond the end.
C9_Witness ==
    /\ log.op = "update_goal_state"
    /\ t_idx > 0
    /\ t_idx < Len(notes)
    /\ t_idx + Lookahead >= Len(notes)
    /\ \E k \in 0 .. (NKeys - 1) : Get(goal_state)[0][k] = 1
    /\ \E k \in 0 .. (NKeys - 1) : Get(goal_state)[0][k] = 0
    /\ Get(goal_state)[0][NKeys] = 1

\* C10: when the timestep index has reached the end of the note schedule,
\* querying the goal state and the fingering state neither throws nor
\* mutates the goal state, the fingering state or the per-hand key lists.
C10_ExhaustedQueriesAreNoOps ==
    [][(log'.op \in {"update_goal_state", "update_fingering_state"}
          /\ t_idx = Len(notes)) =>
            /\ UNCHANGED tracker_vars
            /\ ~log'.propagated
            /\ pc' # "aborted"
            /\ ~IsNone(goal_state')
            /\ ~IsNone(fingering_state')]_vars

\* Both queries made at the end of the schedule, over a goal state and key
\* lists that a rebuild would have cleared.
C10_Witness ==
    /\ log.op = "update_fingering_state"
    /\ pc = "terminate"
    /\ t_idx = Len(notes)
    /\ \E k \in 0 .. (NKeys - 1) : Get(goal_state)[0][k] = 1
    /\ Len(rh_keys) + Len(lh_keys) > 0

\* The last handler was get_reward.
Rewarded == ~IsNone(log.reward)

\* The keys the current goal row wants off, and those of them the scene of
\* the last reward has active.
OffKeys == {k \in Keys : Get(goal_current)[k] = 0}

ActiveOffKeys ==
    {k \in OffKeys : Get(log.reward).scene.key_state[k] = FP}

\* The on-term of the key-press reward of the last scene: half the mean
\* tolerance over the keys the goal row wants on, 0 when there is none.
OnTerm ==
    LET on == Keys \ OffKeys
        st == Get(log.reward).scene.key_state
    IN  IF on = {} THEN 0
        ELSE (SumOver([k \in on |-> Tolerance(FP - st[k], 5, 50)], on)
                 \div Cardinality(on)) \div 2

\* C11: in the key-press reward the off-term is 0.5 when no key that is
\* required off at this timestep is active, and exactly 0 when at least one
\* such key is active, however many off keys there are and however many of
\* them are active.
C11_StrictOffPenalty ==
    Rewarded =>
        Get(log.reward).terms["key_press_reward"] - OnTerm
            = IF ActiveOffKeys = {} THEN 500000 ELSE 0

\* One false positive among several off keys, the others correctly
\* inactive: the off-term is lost whole.
C11_Witness ==
    /\ Rewarded
    /\ Cardinality(OffKeys) >= 2
    /\ Cardinality(ActiveOffKeys) = 1
    /\ Get(log.reward).terms["key_press_reward"] = 0

\* C12: when no key is required at the current timestep the
\* optimal-transport fingering reward returns exactly 1.0, whereas the
\* direct fingering reward returns exactly 0.0 when no finger is assigned.
C12_NoOpAsymmetry ==
    Rewarded =>
        LET terms == Get(log.reward).terms
        IN  /\ ("ot_fingering_reward" \in DOMAIN terms /\ Keys \ OffKeys = {})
                  => terms["ot_fingering_reward"] = 1000000
            /\ ("fingering_reward" \in DOMAIN terms
                   /\ Len(Get(rh_keys_current)) + Len(Get(lh_keys_current)) = 0)
                  => terms["fingering_reward"] = 0

\* The optimal-transport reward of a step without required keys, with both
\* hands far from the keyboard's first keys.
C12_Witness ==
    /\ Rewarded
    /\ disable_fingering_reward
    /\ Keys \ OffKeys = {}
    /\ \A s \in Sides : Get(log.reward).scene.hand_x[s] = 18
    /\ Get(log.reward).terms["ot_fingering_reward"] = 1000000

\* The total distance of a set of (fingertip, key) pairs in the last scene.
PairsTotal(pairs) ==
    LET hx == Get(log.reward).scene.hand_x
    IN  SumOver([p \in pairs |-> Distance(hx, p[1][1], p[1][2], p[2])], pairs)

\* C13: for 10 fingertips and k >= 1 required keys, the optimal-transport
\* score is the mean tolerance over the pairs of a minimum-total-cost
\* bipartite assignment on the 10 x k distance matrix: each fingertip is
\* assigned to at most one key and each required key to at most one
\* fingertip, the assignment has exactly min(10, k) pairs, and no other
\* one-to-one assignment of that size has a smaller total distance (every
\* one-to-one assignment of the k keys is enumerated).
C13_OptimalTransport ==
    (Rewarded /\ disable_fingering_reward /\ Keys \ OffKeys # {}) =>
        LET r == Get(log.reward)
            required == Keys \ OffKeys
            k == Cardinality(required)
            tips == {"right", "left"} \X (0 .. 4)
            a == r.assignment
            hx == r.scene.hand_x
            total_a == PairsTotal(a)
        IN  /\ Cardinality(tips) = 10
            /\ a \subseteq tips \X required
            /\ \A p, q \in a : (p[1] = q[1] \/ p[2] = q[2]) => p = q
            /\ Cardinality(a) = IF k < 10 THEN k ELSE 10
            /\ k <= 10 =>
                  \A g \in [required -> tips] :
                      (\A x, y \in required : x # y => g[x] # g[y])
                          => SumOver([x \in required |->
                                        Distance(hx, g[x][1], g[x][2], x)],
                                     required) >= total_a
            /\ r.terms["ot_fingering_reward"]
                  = SumOver([p \in a |->
                               Tolerance(Distance(hx, p[1][1], p[1][2], p[2]),
                                         1, 10)], a)
                       \div Cardinality(a)

\* Two required keys that share their nearest fingertip: one of them is
\* paired with a fingertip farther away than its nearest.
C13_Witness ==
    /\ Rewarded
    /\ disable_fingering_reward
    /\ Cardinality(Keys \ OffKeys) >= 2
    /\ Cardinality(Get(log.reward).assignment) = Cardinality(Keys \ OffKeys)
    /\ \E p \in Get(log.reward).assignment :
          \E tip \in Fingertips :
              PairsTotal({<<tip, p[2]>>}) < PairsTotal({p})

\* The end-to-end scenario: all five terms registered (direct fingering),
\* the goal row requires one key, fingered by right-hand finger 2, and no
\* pedal; the key is at rest, no off key is active, the pedal is up, the
\* fingertip is 0.2 m from the key, the forearms do not collide and the
\* hands draw some power.
Scenario ==
    /\ Rewarded
    /\ DOMAIN Get(log.reward).terms
          = {"key_press_reward", "sustain_reward", "energy_reward",
             "fingering_reward", "forearm_reward"}
    /\ t_idx = 1
    /\ Get(rh_keys_current) = <<(<<0, 2>>)>>
    /\ Get(lh_keys_current) = <<>>
    /\ Keys \ OffKeys = {0}
    /\ Get(goal_current)[NKeys] = 0
    /\ LET scene == Get(log.reward).scene
       IN  /\ scene.key_state[0] = 0
           /\ ActiveOffKeys = {}
           /\ scene.sustain_activation = 0
           /\ scene.hand_x["right"] + 2 - 0 = 20
           /\ ~scene.collision
           /\ \E s \in Sides : scene.power[s] > 0

\* C14 (as claimed): in the end-to-end scenario the total reward returned
\* by get_reward lies within 1.0 +/- 0.1.
C14_TotalNearOne ==
    Scenario =>
        /\ Get(log.reward).total >= 900000
        /\ Get(log.reward).total <= 1100000

\* C14 (amended): in the end-to-end scenario the key-press term is about
\* 0.5 (the off-term alone), the fingering term about 0, the forearm term
\* 0.5, the energy term slightly negative, and the sustain term, for a
\* pedal that is correctly up, is 1.0; the total returned by get_reward is
\* their sum and lies within 2.0 +/- 0.1.
C14_TotalNearTwo ==
    Scenario =>
        LET r == Get(log.reward)
        IN  /\ r.terms["key_press_reward"] >= 500000
            /\ r.terms["key_press_reward"] <= 501000
            /\ r.terms["fingering_reward"] >= 0
            /\ r.terms["fingering_reward"] <= 1000
            /\ r.terms["forearm_reward"] = 500000
            /\ r.terms["sustain_reward"] = 1000000
            /\ r.terms["energy_reward"] < 0
            /\ r.terms["energy_reward"] >= -100000
            /\ r.total = r.terms["key_press_reward"] + r.terms["sustain_reward"]
                           + r.terms["energy_reward"]
                           + r.terms["fingering_reward"]
                           + r.terms["forearm_reward"]
            /\ r.total >= 1900000
            /\ r.total <= 2100000

\* The scenario, scored.
C14_Witness ==
    /\ Scenario
    /\ Get(log.reward).terms["sustain_reward"] = 1000000
    /\ Get(log.reward).total > 1100000

C16_IntegratorWriter ==
    [][(log'.ik_updates = 1 /\ ~log'.failed) =>
          /\ DOMAIN qpos' = {j \in all_joints : JointResolves(j)}
          /\ \A j \in DOMAIN qpos' :
                LET v == Get(prev_vel')[j]
                IN  /\ qpos'[j] * 10 = qpos[j] * 10 + v
                    /\ qvel'[j] * 10
                          = v * 10 + 8 * ((qpos'[j] - qpos[j]) * 10)]_vars

\* A solve that moved a joint which the physics had left away from zero.
C16_Witness ==
    /\ log.ik_updates = 1
    /\ ~log.failed
    /\ \E j \in DOMAIN qpos :
          /\ Get(prev_vel)[j] # 0
          /\ qpos[j] * 10 # Get(prev_vel)[j]

\* C19: the joint velocity written to physics on a solve step is the limiter
\* output plus the 0.8-gain corrective term; the position read back being
\* the position read at the start of the solve, it is 1.8 times the limiter
\* output, so the written and the later held joint velocity is bounded in
\* magnitude by 1.8 * v_max = 3.6, not by v_max.
C19_WrittenVelocityBound ==
    /\ (log.ik_updates = 1 /\ ~log.failed) =>
          \A j \in DOMAIN Get(last_velocities) :
              /\ qvel[j] * 10 = Get(prev_vel)[j] * 18
              /\ Abs(qvel[j]) * 10 <= 36 * FP
    /\ ~IsNone(last_velocities) =>
          \A j \in DOMAIN Get(last_velocities) :
              Abs(Get(last_velocities)[j]) * 10 <= 36 * FP
    /\ (log.op = "before_step" /\ log.held /\ ~IsNone(last_velocities)) =>
          \A j \in DOMAIN Get(last_velocities) :
              /\ qvel[j] = Get(last_velocities)[j]
              /\ Abs(qvel[j]) * 10 <= 36 * FP

\* A hold step that wrote a velocity of 3.6, above v_max = 2.0.
C19_Witness ==
    /\ log.op = "before_step"
    /\ log.held
    /\ ~IsNone(last_velocities)
    /\ \E j \in DOMAIN Get(last_velocities) :
          /\ Abs(qvel[j]) * 10 = 36 * FP
          /\ Abs(qvel[j]) > 2 * FP

\* C20: in every reachable state _last_velocities is either None or a map
\* written by an IK update that ran to completion; whenever it is not None
\* the G1 entity is present and the map has an entry for every arm joint
\* the model resolves, so the hold branch of before_step never dereferences
\* a missing entity or a missing key; while it is None a hold step writes
\* no joint velocity at all.
C20_HoldCacheSafety ==
    /\ [](~IsNone(last_velocities) =>
            /\ g1 = "G1Entity"
            /\ DOMAIN Get(last_velocities)
                  = {j \in all_joints : j \in asset.joints})
    /\ [](log.held => (~log.propagated /\ pc # "aborted"))
    /\ [][/\ last_velocities' # last_velocities =>
               /\ log'.ik_updates = 1
               /\ ~log'.failed
               /\ ~IsNone(last_velocities')
          /\ (log'.held /\ IsNone(last_velocities)) => qvel' = qvel]_vars

\* A hold step over a cache that lacks a joint the model does not have.
C20_Witness ==
    /\ log.op = "before_step"
    /\ log.held
    /\ ~IsNone(last_velocities)
    /\ DOMAIN Get(last_velocities) # all_joints
    /\ \E j \in DOMAIN Get(last_velocities) : qvel[j] # 0

\* C17: for every timestep t < len(schedule) whose notes carry finger
\* indices in 0..9, _update_fingering_state puts (key, f) into the
\* right-hand list for each note with finger f in 0..4 and (key, f - 5) into
\* the left-hand list for each note with finger f in 5..9, so every stored
\* finger index is in 0..4; the 2 x 5 fingering state has entry
\* [hand][finger] = 1 exactly when some note at t is assigned to that hand
\* and finger, and 0 otherwise; both lists and the matrix are computed from
\* the schedule at t alone.
C17_FingeringSplit ==
    (log.op = "update_fingering_state" /\ t_idx < Len(notes)) =>
        LET ns == notes[t_idx + 1]
            rh_notes == {n \in DOMAIN ns : ns[n].fingering \in 0 .. 4}
            lh_notes == {n \in DOMAIN ns : ns[n].fingering \in 5 .. 9}
            fs == Get(fingering_state)
        IN  /\ rh_notes \cup lh_notes = DOMAIN ns
            /\ Len(rh_keys) = Cardinality(rh_notes)
            /\ Len(lh_keys) = Cardinality(lh_notes)
            /\ \A n \in rh_notes :
                  \E i \in DOMAIN rh_keys :
                      rh_keys[i] = <<ns[n].key, ns[n].fingering>>
            /\ \A n \in lh_notes :
                  \E i \in DOMAIN lh_keys :
                      lh_keys[i] = <<ns[n].key, ns[n].fingering - 5>>
            /\ \A i \in DOMAIN rh_keys : rh_keys[i][2] \in 0 .. 4
            /\ \A i \in DOMAIN lh_keys : lh_keys[i][2] \in 0 .. 4
            /\ DOMAIN fs = 0 .. 1
            /\ \A hand \in 0 .. 1 :
                  /\ DOMAIN fs[hand] = 0 .. 4
                  /\ \A f \in 0 .. 4 :
                        fs[hand][f] =
                            IF \E n \in DOMAIN ns :
                                  ns[n].fingering = 5 * hand + f
                            THEN 1 ELSE 0

\* The second timestep uses the left hand only, after a first timestep that
\* used the right hand: nothing of the right hand is left over.
C17_Witness ==
    /\ log.op = "update_fingering_state"
    /\ t_idx = 1
    /\ Len(notes) > 1
    /\ \E n \in DOMAIN notes[1] : notes[1][n].fingering < 5
    /\ rh_keys = <<>>
    /\ lh_keys = <<(<<1, 0>>)>>
    /\ Get(fingering_state)[0][2] = 0
    /\ Get(fingering_state)[1][0] = 1

\* C18: after _set_rewards the composer always contains the key-press,
\* sustain and energy terms; it contains exactly one of the direct
\* fingering term and the optimal-transport fingering term (direct when
\* fingering is enabled, optimal-transport when the fingering reward is
\* disabled); and it contains the forearm term exactly when the forearm
\* reward is not disabled.
C18_RewardRegistration ==
    pc # "new" =>
        /\ {"key_press_reward", "sustain_reward", "energy_reward"}
              \subseteq reward_fn
        /\ ("fingering_reward" \in reward_fn) <=> ~disable_fingering_reward
        /\ ("ot_fingering_reward" \in reward_fn) <=> disable_fingering_reward
        /\ Cardinality(reward_fn
                         \cap {"fingering_reward", "ot_fingering_reward"}) = 1
        /\ ("forearm_reward" \in reward_fn) <=> ~disable_forearm_reward
        /\ reward_fn \subseteq
              {"key_press_reward", "sustain_reward", "energy_reward",
               "fingering_reward", "ot_fingering_reward", "forearm_reward"}
        /\ Rewarded => DOMAIN Get(log.reward).terms = reward_fn

\* A task built with the fingering reward enabled and the forearm reward
\* disabled: four terms, the direct fingering term among them.
C18_Witness ==
    /\ pc = "reset"
    /\ log.op = "init"
    /\ ~disable_fingering_reward
    /\ disable_forearm_reward
    /\ reward_fn = {"key_press_reward", "sustain_reward", "energy_reward",
                    "fingering_reward"}

\* C21: initialize_episode resets the timestep index, the terminate flag
\* and the discount and nothing else of the controller: it leaves
\* _ik_counter alone, performs at most one IK update of its own, and
\* without a returned solve leaves the limiter's previous velocity and
\* _last_velocities alone.  The steps between two episodes (the termination
\* test, the physics reset) leave the three caches alone.  Consequently,
\* in every episode, 1 <= _ik_counter <= N after a before_step that
\* returned, a before_step holds exactly when the counter it met is not a
\* multiple of N, only a returned solve changes the previous velocity, and
\* a solve of a later episode is acceleration-limited against the command
\* it met, which is the previous episode's last one.
C21_ResetKeepsCaches ==
    [][/\ (pc = "initialize_episode" /\ pc' # pc) =>
             /\ t_idx' = 0
             /\ should_terminate' = FALSE
             /\ discount' = 1
             /\ ik_counter' = ik_counter
             /\ log'.ik_updates <= 1
             /\ IsNone(log'.raw) => last_velocities' = last_velocities
       /\ (pc \in {"terminate", "reset"} /\ pc' # pc) =>
             UNCHANGED <<ik_counter, prev_vel, last_velocities>>
       /\ (pc = "before_step" /\ pc' = "physics") =>
             /\ ik_counter' >= 1
             /\ ik_counter' <= ik_update_rate
             /\ log'.held = (ik_counter % ik_update_rate # 0)
       /\ IsNone(log'.raw) => prev_vel' = prev_vel
       /\ (step_no > 0 /\ ~IsNone(log'.raw) /\ ~IsNone(prev_vel)) =>
             \A j \in DOMAIN Get(prev_vel') :
                 Abs((Get(prev_vel')[j] - Get(prev_vel)[j]) * frequency)
                     <= acc_limit * FP
      ]_vars

\* The IK update of a later episode's initialize_episode returned a solve
\* whose command the acceleration limit held back against the previous
\* episode's last command, and the before_step that follows will hold.
C21_Witness ==
    /\ log.op = "initialize_episode"
    /\ step_no > 0
    /\ ~IsNone(log.raw)
    /\ ~IsNone(log.prev_before)
    /\ Get(prev_vel) # LimitVelocity(Get(log.raw), None)
    /\ ik_counter % ik_update_rate # 0
    /\ ~IsNone(last_velocities)

====
